---- MODULE Spec2Model ----
(***************************************************************************)
(* Model of app.py, the multi-user book order form: the orders table       *)
(* (init_db, insert_order, fetch_orders, batch_apply), the process-wide     *)
(* st.cache_data entry of fetch_orders, and the script run of each browser  *)
(* session (form handler, list, batch diff, apply handler, statistics).     *)
(*                                                                         *)
(* Text is a tuple of character codes (0 is the blank), so that strip()    *)
(* and the ordering of titles are computed and not assumed.  Prices typed  *)
(* into the form are in thousandths of a unit; the price column is         *)
(* NUMERIC(10,2) and holds hundredths.  created_at is never read by any    *)
(* operation modelled here and is left out of the rows.                    *)
(***************************************************************************)
EXTENDS Integers, Sequences, FiniteSets, TLC

\* ------------------------------------------------------------- bounds
\* handler invocations (form submissions and batch applications) in a behaviour
MaxOps == 2
\* largest quantity typed into the grid editor
MaxQty == 3
\* cells of the grid (quantities, delete boxes) edited before one apply
MaxEdits == 2

Sessions == {1, 2}

\* ------------------------------------------------------------- values
\* SQL NULL / Python None in a text column, and in a numeric column
NullText == <<-1>>
NullNum == -1

\* '(未填)', the placeholder of the backfill
Placeholder == <<9>>
\* the two catalog labels, "python人工智慧" < "python基礎學習課程" by code point
LabelAI == <<5, 1>>
LabelBasic == <<5, 2>>
\* "其他（自填）", the radio entry of the free-form item
OTHER_LABEL == <<7>>
\* "其他選項", the category stored for a free-form item
OtherCategory == <<8>>

\* label -> price, in thousandths
BOOK_PRICES == (LabelAI :> 450000) @@ (LabelBasic :> 300000)

Choices == {LabelAI, LabelBasic, OTHER_LABEL}

\* fetch_orders(limit=500)
Limit == 500

\* the submitted forms of the model: name, radio choice, the free-form title
\* and price (thousandths) when the choice shows them, quantity, note.  Two
\* catalog orders, two free-form orders (one priced below a hundredth), and
\* a blank name, a blank free-form title and a free-form price of 0.
Form(name, choice, title, price, qty, note) ==
    [name |-> name, choice |-> choice, title |-> title, price |-> price,
     qty |-> qty, note |-> note]

FormInputs ==
    {Form(<<0, 1, 0>>, LabelAI, LabelAI, 450000, 1, NullText),
     Form(<<1>>, LabelBasic, LabelBasic, 300000, 2, <<3>>),
     Form(<<1>>, OTHER_LABEL, <<2, 0>>, 4, 1, <<3>>),
     Form(<<1>>, OTHER_LABEL, <<0, 2>>, 10000, 2, NullText),
     Form(<<0>>, LabelAI, LabelAI, 450000, 1, NullText),
     Form(<<1>>, OTHER_LABEL, <<0>>, 10000, 1, NullText),
     Form(<<1>>, OTHER_LABEL, <<2>>, 0, 1, NullText)}

EvolvedCols == {"book_category", "book_title", "price", "note"}

\* ------------------------------------------------------------- text
RECURSIVE LStrip(_)
LStrip(t) == IF t = <<>> THEN <<>>
             ELSE IF Head(t) = 0 THEN LStrip(Tail(t)) ELSE t

RECURSIVE RStrip(_)
RStrip(t) == IF t = <<>> THEN <<>>
             ELSE IF t[Len(t)] = 0 THEN RStrip(SubSeq(t, 1, Len(t) - 1)) ELSE t

\* str.strip()
strip(t) == RStrip(LStrip(t))

\* a < b in the order of Python strings (code points, shorter prefix first)
RECURSIVE TextLess(_, _)
TextLess(a, b) ==
    IF b = <<>> THEN FALSE
    ELSE IF a = <<>> THEN TRUE
    ELSE IF Head(a) # Head(b) THEN Head(a) < Head(b)
    ELSE TextLess(Tail(a), Tail(b))

\* ------------------------------------------------------------- state
VARIABLES
    schema,     \* [exists, cols]: the orders table and its evolved columns
    orders,     \* id -> row, the committed rows of the table
    nextId,     \* the SERIAL sequence of orders.id
    cache,      \* the st.cache_data entry of fetch_orders(limit=500)
    computing,  \* the session that holds the cache's compute lock, or 0
    pc,         \* per session: where its script run stands
    df,         \* per session: the snapshot fetch_orders returned to it
    pending,    \* per session: the query result not yet written to the cache
    stats,      \* per session: what the statistics section produced
    msg,        \* per session: the last st.success / st.error shown
    myVer,      \* history: per session, the clock of its last committed mutation
    clock,      \* history: number of handler invocations so far
    last        \* history: the last handler invocation, what it was given and
                \* what came out (a snapshot's ver is the clock it was read at)

vars == <<schema, orders, nextId, cache, computing, pc, df, pending, stats,
          msg, myVer, clock, last>>

NoSnap == [rows |-> <<>>, ver |-> -1]

Max(S) == CHOOSE m \in S : \A x \in S : x <= m

\* ------------------------------------------------------------- data layer
\* CHECK (qty > 0) of the orders table
CheckQty_off(q) == TRUE

CheckQty(q) == q > 0

\* the three backfilling UPDATEs of init_db, on one row
Backfill(r) ==
    [r EXCEPT !.price = IF @ = NullNum THEN 0 ELSE @,
              !.book_category = IF @ = NullText THEN Placeholder ELSE @,
              !.book_title = IF @ = NullText THEN Placeholder ELSE @]

\* init_db(): CREATE TABLE IF NOT EXISTS, ADD COLUMN IF NOT EXISTS, backfill,
\* in one transaction.  A column added to existing rows is NULL in them,
\* which is what a row of an older table already holds here.
init_db(sch, rows) ==
    [schema |-> [exists |-> TRUE, cols |-> sch.cols \cup EvolvedCols],
     orders |-> [id \in DOMAIN rows |-> Backfill(rows[id])]]

\* a value stored into NUMERIC(10,2): rounded to two decimals, half away
\* from zero (thousandths in, hundredths out)
Numeric2(p) == (p + 5) \div 10

\* engine.begin(): commit when the block ends, roll back when it raises
Transaction_autocommit(pre, work, failed) == work

Transaction(pre, work, failed) == IF failed THEN pre ELSE work

\* the row the INSERT of insert_order writes
NewRow_swapped(id, a) ==
    [id |-> id, name |-> a.name, qty |-> a.qty,
     book_category |-> a.book_title, book_title |-> a.book_category,
     price |-> Numeric2(a.price),
     note |-> IF a.note \in {NullText, <<>>} THEN <<>> ELSE a.note]

NewRow(id, a) ==
    [id |-> id, name |-> a.name, qty |-> a.qty,
     book_category |-> a.book_category, book_title |-> a.book_title,
     price |-> Numeric2(a.price),
     note |-> IF a.note \in {NullText, <<>>} THEN <<>> ELSE a.note]

\* insert_order(...): one INSERT in one transaction; `forced` is a failure of
\* the connection during it
insert_order(rows, id, a, forced) ==
    LET r == NewRow(id, a)
        failed == forced \/ ~CheckQty(r.qty)
        work == [i \in DOMAIN rows \cup {id} |-> IF i = id THEN r ELSE rows[i]]
    IN  [ok |-> ~failed, rows |-> Transaction(rows, work, failed)]

\* UPDATE orders SET qty = :q WHERE id = :id
UpdateQty_nowhere(rows, u) ==
    [id \in DOMAIN rows |-> [rows[id] EXCEPT !.qty = u.q]]

UpdateQty_increment(rows, u) ==
    [id \in DOMAIN rows |->
        IF id = u.id THEN [rows[id] EXCEPT !.qty = @ + u.q] ELSE rows[id]]

UpdateQty(rows, u) ==
    [id \in DOMAIN rows |->
        IF id = u.id THEN [rows[id] EXCEPT !.qty = u.q] ELSE rows[id]]

\* the executemany of batch_apply: the UPDATE once per entry, in list order;
\* an UPDATE whose new row breaks the CHECK raises and changes nothing
RECURSIVE ExecUpdates(_, _)
ExecUpdates(rows, updates) ==
    IF updates = <<>> THEN [rows |-> rows, failed |-> FALSE]
    ELSE LET w == UpdateQty(rows, Head(updates))
         IN  IF \E id \in DOMAIN w : ~CheckQty(w[id].qty)
             THEN [rows |-> rows, failed |-> TRUE]
             ELSE ExecUpdates(w, Tail(updates))

\* DELETE FROM orders WHERE id IN :ids
DeleteIn(rows, ids) == [id \in DOMAIN rows \ ids |-> rows[id]]

\* batch_apply(updates, delete_ids): the updates, then the deletes, in one
\* transaction.  forced: "none", or the connection failing after the updates
\* ("mid") or after the deletes, before the commit ("end").
batch_apply(rows, updates, delete_ids, forced) ==
    LET up == IF updates # <<>> THEN ExecUpdates(rows, updates)
              ELSE [rows |-> rows, failed |-> FALSE]
        body == IF up.failed THEN up
                ELSE IF forced = "mid" THEN [rows |-> up.rows, failed |-> TRUE]
                ELSE [rows |-> IF delete_ids # {} THEN DeleteIn(up.rows, delete_ids)
                               ELSE up.rows,
                      failed |-> forced = "end"]
    IN  [ok |-> ~body.failed, rows |-> Transaction(rows, body.rows, body.failed)]

\* ids in descending order
RECURSIVE DescSeq(_)
DescSeq(S) == IF S = {} THEN <<>> ELSE <<Max(S)>> \o DescSeq(S \ {Max(S)})

\* SELECT ... FROM orders ORDER BY id DESC LIMIT :lim
SelectOrders(rows, lim) ==
    LET ids == DescSeq(DOMAIN rows)
        n == IF Len(ids) < lim THEN Len(ids) ELSE lim
    IN  [i \in 1..n |-> rows[ids[i]]]

\* to_numeric(errors="coerce").fillna(0) of price and qty, and the amount
\* column; hundredths are kept exact
Coerce(r) ==
    LET p == IF r.price = NullNum THEN 0 ELSE r.price
        q == IF r.qty = NullNum THEN 0 ELSE r.qty
    IN  [id |-> r.id, name |-> r.name, qty |-> q,
         book_category |-> r.book_category, book_title |-> r.book_title,
         price |-> p, note |-> r.note, amount |-> q * p]

\* the body of fetch_orders(limit): what a cache miss computes
fetch_orders(rows, lim) ==
    LET got == SelectOrders(rows, lim)
    IN  [i \in 1..Len(got) |-> Coerce(got[i])]

\* ------------------------------------------------------------- statistics
RECURSIVE SumQty(_, _)
SumQty(rows, t) ==
    IF rows = <<>> THEN 0
    ELSE (IF Head(rows).book_title = t THEN Head(rows).qty ELSE 0)
         + SumQty(Tail(rows), t)

RECURSIVE SumAmount(_, _)
SumAmount(rows, t) ==
    IF rows = <<>> THEN 0
    ELSE (IF Head(rows).book_title = t THEN Head(rows).amount ELSE 0)
         + SumAmount(Tail(rows), t)

RECURSIVE TotalAmount(_)
TotalAmount(rows) ==
    IF rows = <<>> THEN 0 ELSE Head(rows).amount + TotalAmount(Tail(rows))

\* sort_values("book_title"): the titles in ascending order
RECURSIVE SortTitles(_)
SortTitles(S) ==
    IF S = {} THEN <<>>
    ELSE LET m == CHOOSE x \in S : \A y \in S \ {x} : TextLess(x, y)
         IN  <<m>> \o SortTitles(S \ {m})

\* round(0) of a number of hundredths to whole units, half to even
Round0(c) ==
    LET q == c \div 100
        r == c % 100
    IN  IF r < 50 THEN q
        ELSE IF r > 50 THEN q + 1
        ELSE IF q % 2 = 0 THEN q ELSE q + 1

\* df.groupby("book_title").agg(sum of qty, sum of amount).sort_values(...)
GroupByTitle_unsorted(rows) ==
    [i \in 1..Len(rows) |->
        [book_title |-> rows[i].book_title,
         qty |-> rows[i].qty, amount |-> rows[i].amount]]

GroupByTitle(rows) ==
    LET ts == SortTitles({rows[i].book_title : i \in 1..Len(rows)})
    IN  [k \in 1..Len(ts) |->
            [book_title |-> ts[k],
             qty |-> SumQty(rows, ts[k]),
             amount |-> SumAmount(rows, ts[k])]]

\* the statistics section of one script run: nothing for an empty df (the
\* "no orders" notice is the whole branch), else the grouping, the amounts
\* as displayed, and the grand total
Statistics(rows) ==
    IF rows = <<>> THEN <<>>
    ELSE LET agg == GroupByTitle(rows)
         IN  <<[agg |-> agg,
                shown |-> [k \in 1..Len(agg) |-> Round0(agg[k].amount)],
                total_amount |-> TotalAmount(rows)]>>

\* ------------------------------------------------------------- form
\* title, price and category of the chosen radio entry
FormItem(choice, title, price) ==
    IF choice = OTHER_LABEL
    THEN [title |-> title, price |-> price, category |-> OtherCategory]
    ELSE [title |-> choice, price |-> BOOK_PRICES[choice], category |-> choice]

\* the two checks of the submitted handler
FormValid_untrimmed(name, choice, title, price) ==
    /\ name # <<>>
    /\ ~(choice = OTHER_LABEL /\ (title = <<>> \/ price <= 0))

FormValid(name, choice, title, price) ==
    /\ strip(name) # <<>>
    /\ ~(choice = OTHER_LABEL /\ (strip(title) = <<>> \/ price <= 0))

\* ------------------------------------------------------------- batch diff
\* ids of the rows whose delete box is ticked
DeleteIds(rows, edited) ==
    {rows[i].id : i \in {j \in 1..Len(rows) : edited[j].del}}

\* {"id", "q"} of the rows whose quantity differs from the snapshot, in
\* the order of the snapshot
Updates(rows, edited) ==
    LET idx == SelectSeq([i \in 1..Len(rows) |-> i],
                         LAMBDA i : edited[i].qty # rows[i].qty)
    IN  [k \in 1..Len(idx) |-> [id |-> rows[idx[k]].id, q |-> edited[idx[k]].qty]]

\* a quantity of the grid editor; batch_apply itself takes any integer, and
\* 0 stands for every quantity below 1 that reaches it
EditQty == 0..MaxQty

\* working copies of a snapshot with at most MaxEdits cells edited
Edits(rows) ==
    {e \in [1..Len(rows) -> [qty : EditQty, del : BOOLEAN]] :
        Cardinality({i \in 1..Len(rows) : e[i].qty # rows[i].qty})
        + Cardinality({i \in 1..Len(rows) : e[i].del}) <= MaxEdits}

\* ------------------------------------------------------------- start
\* rows written by the first version of the application, which had none
\* of the evolved columns
LegacyRows ==
    <<[id |-> 1, name |-> <<1>>, qty |-> 2, book_category |-> NullText,
       book_title |-> NullText, price |-> NullNum, note |-> NullText],
      [id |-> 2, name |-> <<2>>, qty |-> 1, book_category |-> NullText,
       book_title |-> NullText, price |-> NullNum, note |-> NullText]>>

\* the database the process starts on: no table yet, or the table of the
\* first version with its rows
StartStates ==
    {[schema |-> [exists |-> FALSE, cols |-> {}], orders |-> <<>>, nextId |-> 1],
     [schema |-> [exists |-> TRUE, cols |-> {}], orders |-> LegacyRows,
      nextId |-> 3]}

Init ==
    /\ \E d \in StartStates :
          /\ schema = d.schema
          /\ orders = d.orders
          /\ nextId = d.nextId
    /\ cache = NoSnap
    /\ computing = 0
    /\ pc = [s \in Sessions |-> "start"]
    /\ df = [s \in Sessions |-> NoSnap]
    /\ pending = [s \in Sessions |-> NoSnap]
    /\ stats = [s \in Sessions |-> <<>>]
    /\ msg = [s \in Sessions |-> "none"]
    /\ myVer = [s \in Sessions |-> 0]
    /\ clock = 0
    /\ last = [op |-> "none", n |-> 0]

\* ------------------------------------------------------------- script run
\* a run of the script starts (the first one, a rerun, or a later
\* interaction with the page): the page of the previous run is gone, and
\* init_db() is called
InitDb(s) ==
    /\ pc[s] \in {"start", "view"}
    /\ LET r == init_db(schema, orders)
       IN  /\ schema' = r.schema
           /\ orders' = r.orders
    /\ pc' = [pc EXCEPT ![s] = "form"]
    /\ msg' = [msg EXCEPT ![s] = "none"]
    /\ df' = [df EXCEPT ![s] = NoSnap]
    /\ stats' = [stats EXCEPT ![s] = <<>>]
    /\ UNCHANGED <<nextId, cache, computing, pending, myVer, clock, last>>

\* the run of a submitted form (a form f, a connection that fails or not)
SubmitForm(s, f, forced) ==
    LET item == FormItem(f.choice, f.title, f.price)
        a == [name |-> strip(f.name), qty |-> f.qty,
              book_category |-> item.category, book_title |-> strip(item.title),
              price |-> item.price, note |-> f.note]
        r == insert_order(orders, nextId, a, forced)
    IN  IF ~FormValid(f.name, f.choice, item.title, item.price)
        THEN /\ msg' = [msg EXCEPT ![s] = "invalid"]
             /\ pc' = [pc EXCEPT ![s] = "fetch"]
             /\ last' = [op |-> "rejected", n |-> clock + 1, s |-> s, form |-> f]
             /\ UNCHANGED <<orders, nextId, myVer>>
        ELSE /\ orders' = r.rows
             /\ nextId' = IF r.ok THEN nextId + 1 ELSE nextId
             /\ msg' = [msg EXCEPT ![s] = IF r.ok THEN "ok" ELSE "error"]
             /\ pc' = [pc EXCEPT ![s] = IF r.ok THEN "clear" ELSE "fetch"]
             /\ myVer' = [myVer EXCEPT ![s] = IF r.ok THEN clock + 1 ELSE @]
             /\ last' = [op |-> "insert", n |-> clock + 1, s |-> s, ok |-> r.ok,
                         id |-> nextId, args |-> a, form |-> f]

Submit(s) ==
    /\ pc[s] = "form"
    /\ clock < MaxOps
    /\ \E f \in FormInputs, forced \in BOOLEAN : SubmitForm(s, f, forced)
    /\ clock' = clock + 1
    /\ UNCHANGED <<schema, cache, computing, df, pending, stats>>

\* st.cache_data.clear() and st.rerun() after a successful mutation
ClearCache(s) ==
    /\ pc[s] = "clear"
    /\ cache' = NoSnap
    /\ pc' = [pc EXCEPT ![s] = "start"]
    /\ UNCHANGED <<schema, orders, nextId, computing, df, pending, stats, msg,
                   myVer, clock, last>>

\* the rest of the run once fetch_orders has returned rows: df, statistics
Render(s, snap) ==
    /\ df' = [df EXCEPT ![s] = snap]
    /\ stats' = [stats EXCEPT ![s] = Statistics(snap.rows)]
    /\ pc' = [pc EXCEPT ![s] = "view"]

\* fetch_orders(limit=500) served from the cache; the run reaches it with
\* the form not submitted, or after a rejected or failed submission
FetchHit(s) ==
    /\ pc[s] \in {"form", "fetch"}
    /\ cache.ver >= 0
    /\ Render(s, cache)
    /\ UNCHANGED <<schema, orders, nextId, cache, computing, pending, msg, myVer,
                   clock, last>>

\* a miss: the function body runs under the entry's compute lock
FetchMiss(s) ==
    /\ pc[s] \in {"form", "fetch"}
    /\ cache.ver < 0
    /\ computing = 0
    /\ computing' = s
    /\ pending' = [pending EXCEPT ![s] =
                      [rows |-> fetch_orders(orders, Limit), ver |-> clock]]
    /\ pc' = [pc EXCEPT ![s] = "computing"]
    /\ UNCHANGED <<schema, orders, nextId, cache, df, stats, msg, myVer, clock,
                   last>>

\* the result of the miss is written to the cache and returned
FetchStore(s) ==
    /\ pc[s] = "computing"
    /\ cache' = pending[s]
    /\ computing' = 0
    /\ pending' = [pending EXCEPT ![s] = NoSnap]
    /\ Render(s, pending[s])
    /\ UNCHANGED <<schema, orders, nextId, msg, myVer, clock, last>>

\* ttl=5: the entry expires
CacheExpire ==
    /\ cache.ver >= 0
    /\ cache' = NoSnap
    /\ UNCHANGED <<schema, orders, nextId, computing, pc, df, pending, stats,
                   msg, myVer, clock, last>>

\* the run of the apply button: the diff of the working copy against df,
\* then batch_apply
Apply(s) ==
    /\ pc[s] = "view"
    /\ df[s].rows # <<>>
    /\ clock < MaxOps
    /\ \E edited \in Edits(df[s].rows), forced \in {"none", "mid", "end"} :
          LET delete_ids == DeleteIds(df[s].rows, edited)
              updates == Updates(df[s].rows, edited)
              r == batch_apply(orders, updates, delete_ids, forced)
          IN  /\ orders' = r.rows
              /\ msg' = [msg EXCEPT ![s] = IF r.ok THEN "ok" ELSE "error"]
              /\ pc' = [pc EXCEPT ![s] = IF r.ok THEN "clear" ELSE "view"]
              /\ myVer' = [myVer EXCEPT ![s] = IF r.ok THEN clock + 1 ELSE @]
              /\ last' = [op |-> "batch", n |-> clock + 1, s |-> s, ok |-> r.ok,
                          updates |-> updates, delete_ids |-> delete_ids,
                          forced |-> forced, snap |-> df[s].ver,
                          prev |-> IF last.op = "batch"
                                   THEN [s |-> last.s, ok |-> last.ok,
                                         snap |-> last.snap,
                                         updates |-> last.updates]
                                   ELSE [s |-> 0]]
    /\ clock' = clock + 1
    /\ UNCHANGED <<schema, nextId, cache, computing, df, pending, stats>>

Next ==
    \/ \E s \in Sessions : InitDb(s)
    \/ \E s \in Sessions : Submit(s)
    \/ \E s \in Sessions : ClearCache(s)
    \/ \E s \in Sessions : FetchHit(s)
    \/ \E s \in Sessions : FetchMiss(s)
    \/ \E s \in Sessions : FetchStore(s)
    \/ CacheExpire
    \/ \E s \in Sessions : Apply(s)

Spec == Init /\ [][Next]_vars

\* ------------------------------------------------------------- properties
\* this step is a handler invocation of the given kind
Invoked(op) == last'.n # last.n /\ last'.op = op

UpdateIds(b) == {b.updates[i].id : i \in 1..Len(b.updates)}

\* the batch must raise on these rows: a forced failure, or an UPDATE of a
\* stored row to a quantity the CHECK refuses
MustFail(b, rows) ==
    \/ b.forced # "none"
    \/ \E i \in 1..Len(b.updates) :
          b.updates[i].id \in DOMAIN rows /\ b.updates[i].q < 1

\* C1: batch_apply is all-or-nothing.  Whenever a batch fails (an update
\* breaks the qty > 0 constraint, or a failure is forced after the updates or
\* after the deletes), the stored orders after the call equal the stored
\* orders before it, and the failure is shown to the caller.
C1_BatchAllOrNothing ==
    [][(Invoked("batch") /\ (~last'.ok \/ MustFail(last', orders)))
        => (/\ ~last'.ok
            /\ orders' = orders
            /\ msg'[last'.s] = "error")]_vars

\* C1 happens: a batch with an update of a stored row to a new, legal quantity
\* and a delete of a stored row was forced to fail between the two
C1_Witness ==
    /\ last.op = "batch" /\ ~last.ok /\ last.forced = "mid"
    /\ \E i \in 1..Len(last.updates) :
          /\ last.updates[i].id \in DOMAIN orders
          /\ last.updates[i].q >= 1
          /\ orders[last.updates[i].id].qty # last.updates[i].q
    /\ last.delete_ids \cap DOMAIN orders # {}
    /\ msg[last.s] = "error"

\* C2: in every reachable state every stored order row has quantity >= 1.
C2_QuantityPositive == \A id \in DOMAIN orders : orders[id].qty >= 1

\* C2 happens: a batch asked for a quantity below 1 on a stored row
C2_Witness ==
    /\ last.op = "batch" /\ last.forced = "none"
    /\ \E i \in 1..Len(last.updates) :
          last.updates[i].id \in DOMAIN orders /\ last.updates[i].q < 1

\* C3: a quantity update of a stored row to a quantity below 1 is not
\* rejected: it is clamped, the batch succeeds and the row then holds
\* quantity 1.
C3_ClampedToOne ==
    [][(Invoked("batch") /\ last'.forced = "none")
        => \A i \in 1..Len(last'.updates) :
              (last'.updates[i].id \in DOMAIN orders /\ last'.updates[i].q < 1)
              => (/\ last'.ok
                  /\ last'.updates[i].id \in DOMAIN orders'
                     => orders'[last'.updates[i].id].qty = 1)]_vars

\* C4: an update or a delete of an id that is not stored is a silent no-op.
\* It raises nothing (a batch fails only for a forced failure or a refused
\* quantity on a stored row), no row is created, and a batch that commits
\* deletes exactly the stored ids asked for, sets exactly the asked
\* quantities on the stored rows that remain and leaves every other row as
\* it was.
C4_StaleIdsAreNoOps ==
    [][Invoked("batch")
        => LET b == last'
           IN  /\ ~MustFail(b, orders) => b.ok
               /\ DOMAIN orders' \subseteq DOMAIN orders
               /\ b.ok =>
                    /\ DOMAIN orders' = DOMAIN orders \ b.delete_ids
                    /\ \A id \in DOMAIN orders' :
                          /\ id \notin UpdateIds(b) => orders'[id] = orders[id]
                          /\ \A i \in 1..Len(b.updates) :
                                b.updates[i].id = id =>
                                   orders'[id] =
                                      [orders[id] EXCEPT !.qty = b.updates[i].q]]_vars

\* C4 happens: a committed batch held an update of an id no longer stored
\* and an update of a stored row, which took effect
C4_Witness ==
    /\ last.op = "batch" /\ last.ok
    /\ \E i, j \in 1..Len(last.updates) :
          /\ last.updates[i].id \notin DOMAIN orders
          /\ last.updates[i].id \notin last.delete_ids
          /\ last.updates[j].id \in DOMAIN orders
          /\ orders[last.updates[j].id].qty = last.updates[j].q

InvalidForm(f) ==
    \/ strip(f.name) = <<>>
    \/ f.choice = OTHER_LABEL /\ (strip(f.title) = <<>> \/ f.price <= 0)

\* C6: a submission whose name is blank after trimming, or whose free-form
\* item has a blank title or a price <= 0, is rejected before any storage
\* call: no insert is attempted, the stored orders and the id sequence are
\* unchanged, and the cache is not cleared.
C6_InvalidFormRejected ==
    [][((Invoked("insert") \/ Invoked("rejected")) /\ InvalidForm(last'.form))
        => (/\ last'.op = "rejected"
            /\ orders' = orders
            /\ nextId' = nextId
            /\ cache' = cache
            /\ pc'[last'.s] # "clear"
            /\ msg'[last'.s] = "invalid")]_vars

\* C6 happens: a free-form order priced 0 was rejected while the cache held
\* a list
C6_Witness ==
    /\ last.op = "rejected"
    /\ last.form.choice = OTHER_LABEL /\ last.form.price <= 0
    /\ cache.ver >= 0
    /\ msg[last.s] = "invalid"

Limits == {1, 2, Limit}

\* newest first, capped, and nothing stored left out below the cap
ListShape(l, lim) ==
    /\ Len(l) <= lim
    /\ Len(l) = Cardinality(DOMAIN orders) \/ Len(l) = lim
    /\ \A i \in 1..Len(l) : l[i].id \in DOMAIN orders
    /\ \A i \in 1..(Len(l) - 1) : l[i].id > l[i + 1].id

\* the first row of the list is the order just inserted, but for its price
InsertedFirst(l) ==
    /\ l # <<>>
    /\ l[1].id = last.id
    /\ l[1].name = last.args.name
    /\ l[1].qty = last.args.qty
    /\ l[1].book_title = last.args.book_title
    /\ l[1].note = IF last.args.note = NullText THEN <<>> ELSE last.args.note

\* C7 as stated: the list read from storage is strictly id-descending and
\* capped at limit, and right after a committed insert its first row is the
\* new order with exactly the inserted name, quantity, title, price and note.
C7_InsertThenListExact ==
    \A lim \in Limits :
        LET l == fetch_orders(orders, lim)
        IN  /\ ListShape(l, lim)
            /\ (last.op = "insert" /\ last.ok)
               => (InsertedFirst(l) /\ 10 * l[1].price = last.args.price)

\* C7 as amended: the same, the price of the first row being the inserted
\* price rounded to two decimals (half up), as the NUMERIC(10,2) column
\* stores it.
C7_InsertThenList ==
    \A lim \in Limits :
        LET l == fetch_orders(orders, lim)
        IN  /\ ListShape(l, lim)
            /\ (last.op = "insert" /\ last.ok)
               => (/\ InsertedFirst(l)
                   /\ 10 * l[1].price - 5 <= last.args.price
                   /\ last.args.price <= 10 * l[1].price + 4)

\* C7 happens: a free-form order was inserted into a table that held rows,
\* more of them than the smallest limit
C7_Witness ==
    /\ last.op = "insert" /\ last.ok
    /\ last.args.book_category = OtherCategory
    /\ Cardinality(DOMAIN orders) >= 3

RECURSIVE SumOver(_, _)
SumOver(f, I) ==
    IF I = {} THEN 0
    ELSE LET i == CHOOSE x \in I : TRUE IN f[i] + SumOver(f, I \ {i})

\* one group per distinct title, ascending, with the sums of the claim
Aggregated(rows, st) ==
    LET all == 1..Len(rows)
        titles == {rows[i].book_title : i \in all}
        qty == [i \in all |-> rows[i].qty]
        amt == [i \in all |-> rows[i].qty * rows[i].price]
    IN  /\ Len(st.agg) = Cardinality(titles)
        /\ \A k \in 1..(Len(st.agg) - 1) :
              TextLess(st.agg[k].book_title, st.agg[k + 1].book_title)
        /\ \A k \in 1..Len(st.agg) :
              LET of == {i \in all : rows[i].book_title = st.agg[k].book_title}
              IN  /\ of # {}
                  /\ st.agg[k].qty = SumOver(qty, of)
                  /\ st.agg[k].amount = SumOver(amt, of)
        /\ st.total_amount = SumOver(amt, all)

C9_BackfilledNoNulls ==
    schema.cols = EvolvedCols =>
        \A id \in DOMAIN orders :
            /\ orders[id].price # NullNum
            /\ orders[id].book_category # NullText
            /\ orders[id].book_title # NullText
            /\ orders[id].note # NullText

\* C10: last write wins.  When a session's batch commits right after a
\* batch of another session computed from the same snapshot, and both set
\* the quantity of the same stored row, the later batch succeeds, no conflict
\* is reported, and the row holds the quantity the later batch wrote.
C10_LastWriteWins ==
    [][(/\ Invoked("batch")
        /\ last.op = "batch" /\ last.ok
        /\ last'.s # last.s /\ last'.snap = last.snap
        /\ ~MustFail(last', orders))
        => \A i \in 1..Len(last.updates), j \in 1..Len(last'.updates) :
              (/\ last.updates[i].id = last'.updates[j].id
               /\ last'.updates[j].id \in DOMAIN orders \ last'.delete_ids)
              => (/\ last'.ok
                  /\ msg'[last'.s] = "ok"
                  /\ orders'[last'.updates[j].id].qty = last'.updates[j].q)]_vars

\* C10 happens: two sessions edited the same row of the same snapshot to
\* different quantities, both batches committed, and the row holds the later
\* one
C10_Witness ==
    /\ last.op = "batch" /\ last.ok
    /\ last.prev.s \notin {0, last.s}
    /\ last.prev.ok
    /\ last.prev.snap = last.snap
    /\ \E i \in 1..Len(last.prev.updates), j \in 1..Len(last.updates) :
          /\ last.prev.updates[i].id = last.updates[j].id
          /\ last.prev.updates[i].q # last.updates[j].q
          /\ last.updates[j].id \in DOMAIN orders
          /\ orders[last.updates[j].id].qty = last.updates[j].q

====
